---- MODULE Spec2Model ----
(***************************************************************************)
(* Model of ichnaea/service/submit/tasks.py: the celery tasks that turn    *)
(* stored raw observations (table measure) into derived observation rows   *)
(* (cell_measure, wifi_measure), maintain the station registries (cell,    *)
(* wifi) with INSERT ... ON DUPLICATE KEY UPDATE, credit users for new     *)
(* stations (process_score) and sweep for unprocessed raw observations     *)
(* (schedule_*_cleanup / reprocess_*_measure).                             *)
(*                                                                         *)
(* Every task instance runs in its own database session.  What a session   *)
(* wrote is kept in the task record until session.commit() copies it into  *)
(* the tables; a task that leaves the session scope by an exception loses  *)
(* it.  A station row written by an open session is locked: another        *)
(* session's upsert of the same key waits until the first one ends.  A     *)
(* query sees the committed tables and the session's own writes.           *)
(*                                                                         *)
(* A python dict is a record whose DOMAIN holds exactly the keys present;  *)
(* a NULL column of table measure is a field missing from the row.         *)
(***************************************************************************)
EXTENDS Integers, Sequences, FiniteSets, Bags, TLC

VARIABLES
    measure,         \* table measure: id -> raw observation (never written here)
    wifi_blacklist,  \* table wifi_blacklist: set of keys (never written here)
    cell,            \* table cell: station key -> [new_measures, total_measures]
    wifi,            \* table wifi: key -> [new_measures, total_measures]
    cell_measure,    \* table cell_measure: bag of derived rows
    wifi_measure,    \* table wifi_measure: bag of derived rows
    score,           \* credits written by process_score: bag of credits
    tasks,           \* the task instances the queue has been handed: a bag
    faults,          \* how often the store or the score collaborator has raised
    ret              \* right after a sweep: <<its kind and what it returned>>

vars == <<measure, wifi_blacklist, cell, wifi, cell_measure, wifi_measure,
          score, tasks, faults, ret>>

\* ------------------------------------------------------------------ bounds

\* Task instances the queue is ever handed (deliveries and scheduled chunks).
MaxTasks == 2

\* The retry ceiling of the task base class (celery's max_retries).
MaxRetries == 1

\* How often the store or the score collaborator raises in one run.
MaxFaults == 1

\* ------------------------------------------------------- python helpers

None == "None"

\* dict.get(k, default)
Get(d, k, default) == IF k \in DOMAIN d THEN d[k] ELSE default

Min(a, b) == IF a < b THEN a ELSE b

\* s[i:j] of a python list (0-based, j clipped to the length)
Slice(s, i, j) == SubSeq(s, i + 1, Min(j, Len(s)))

RECURSIVE SeqToBag(_)
SeqToBag(s) == IF s = <<>> THEN EmptyBag ELSE SetToBag({s[1]}) (+) SeqToBag(Tail(s))

\* the ids of a result set, in primary-key order
RECURSIVE SortedSeq(_)
SortedSeq(S) ==
    IF S = {} THEN <<>>
    ELSE LET m == CHOOSE x \in S : \A y \in S : x <= y
         IN  <<m>> \o SortedSeq(S \ {m})

\* ------------------------------------------------------------ the data

\* RADIO_TYPE of ichnaea.models: the recognised radio names
RADIO_TYPE == [gsm |-> 0, cdma |-> 1]

NoUser == None
\* the users whose submissions the insert tasks carry (a reprocess task
\* carries none)
Users == {"u1"}

\* station entries as the submit path hands them over
CE_gsm   == [radio |-> "gsm", mcc |-> 1, mnc |-> 1, lac |-> 5, cid |-> 9]
CE_plain == [mcc |-> 1, mnc |-> 1, lac |-> 5, cid |-> 9]
CE_nolac == [radio |-> "gsm", mcc |-> 1, mnc |-> 1, cid |-> 9]
CE_odd   == [radio |-> "xyz", mcc |-> 1, mnc |-> 1, lac |-> 5, cid |-> 9]
CE_nomcc == [radio |-> "gsm", mnc |-> 1, lac |-> 5, cid |-> 9]
CE_nocid == [radio |-> "gsm", mcc |-> 1, mnc |-> 1, lac |-> 5]

WE_a      == [key |-> "a", channel |-> 0, frequency |-> 2437]
WE_b      == [key |-> "b", channel |-> 0]
WE_id     == [key |-> "a", id |-> 7, channel |-> 6]
WE_nokey  == [channel |-> 0]
WE_nochan == [key |-> "a", frequency |-> 2437]

One == [new_measures |-> 1, total_measures |-> 1]

NoRows == [wifi_blacklist |-> {}, wifi |-> <<>>, wifi_measure |-> EmptyBag]

\* The stores the tasks may find.  Each is a state the system can be in:
\* raw observations stored by the submit path, and derived rows and
\* registry rows only where an earlier task has committed them.
Stores == {
    \* two reports that saw the same cell
    [measure |-> <<[radio |-> 0, cell |-> <<CE_gsm>>],
                   [radio |-> 0, cell |-> <<CE_plain>>]>>] @@ NoRows,
    \* two reports that saw the same wifi, one of them twice
    [measure |-> <<[radio |-> 0, wifi |-> <<WE_a, WE_a>>],
                   [radio |-> 0, wifi |-> <<WE_a>>]>>] @@ NoRows,
    \* a cell twice in one report, and incomplete cells
    [measure |-> <<[radio |-> 0, cell |-> <<CE_gsm, CE_plain>>],
                   [radio |-> -1, cell |-> <<CE_nolac, CE_odd, CE_plain>>]>>]
        @@ NoRows,
    \* a blacklisted wifi, sighted (report 3) before it was blacklisted,
    \* and an entry that brings its own row id
    [measure |-> <<[radio |-> 0, wifi |-> <<WE_b, WE_b, WE_a>>],
                   [radio |-> 0, wifi |-> <<WE_id>>],
                   [radio |-> 0, wifi |-> <<WE_b>>]>>,
     wifi_blacklist |-> {"b"},
     wifi |-> [k \in {"b"} |-> One],
     wifi_measure |-> SetToBag({[measure_id |-> 3, key |-> "b", channel |-> 0]})],
    \* a cell entry without mcc
    [measure |-> <<[radio |-> 0, cell |-> <<CE_gsm>>],
                   [radio |-> 0, cell |-> <<CE_gsm, CE_nomcc>>]>>] @@ NoRows,
    \* a wifi entry without key, one without channel, and a report without
    \* wifis
    [measure |-> <<[radio |-> 0, wifi |-> <<WE_a, WE_nokey>>],
                   [radio |-> 0, cell |-> <<CE_nolac>>],
                   [radio |-> 0, wifi |-> <<WE_nochan>>]>>] @@ NoRows,
    \* three reports for a sweep to find
    [measure |-> <<[radio |-> 0, cell |-> <<CE_nolac>>],
                   [radio |-> 1, cell |-> <<CE_nocid>>],
                   [radio |-> 0, cell |-> <<CE_nolac>>]>>] @@ NoRows
}

\* A sweep is called with lower in 0..MaxLower, with upper the last stored
\* id or the one after it, and with batch in 1..MaxBatch.
MaxLower == 1
MaxBatch == 2

Init ==
    /\ \E s \in Stores :
        /\ measure = s.measure
        /\ wifi_blacklist = s.wifi_blacklist
        /\ wifi = s.wifi
        /\ wifi_measure = s.wifi_measure
    /\ cell = <<>>
    /\ cell_measure = EmptyBag
    /\ score = EmptyBag
    /\ tasks = EmptyBag
    /\ faults = 0
    /\ ret = <<>>

\* ------------------------------------------------------------ sessions

\* what an open session has written and not yet committed
NoSession == [cell |-> <<>>, wifi |-> <<>>, rows |-> <<>>, score |-> <<>>]

CellTasks == {"insert_cell_measure", "reprocess_cell_measure"}
WifiTasks == {"insert_wifi_measure", "reprocess_wifi_measure"}
InsertTasks == {"insert_cell_measure", "insert_wifi_measure"}
ReprocessTasks == {"reprocess_cell_measure", "reprocess_wifi_measure"}

\* a task instance as the queue holds it: .delay(args), not yet run
NewTask(name, ids, userid) ==
    [name |-> name, ids |-> ids, userid |-> userid, retries |-> 0,
     pc |-> "queued", result |-> 0, exc |-> None,
     measures |-> <<>>, mi |-> 0, ei |-> 0, new |-> 0,
     wifis |-> {}, blacked |-> {}, cur |-> <<>>, session |-> NoSession]

\* a query that finds the committed rows only
Visible_committed(table, own) == table

\* the rows a query of this session finds: the committed table overlaid
\* with the session's own writes
Visible(table, own) ==
    [k \in DOMAIN table \cup DOMAIN own |->
        IF k \in DOMAIN own THEN own[k] ELSE table[k]]

\* the task instances but one of those in state task
others(task) == tasks (-) SetToBag({task})

\* the task instances when one of those in state task moves to state next
moved(task, next) == others(task) (+) SetToBag({next})

\* another open session holds the row lock of station k
Locked(task, k) ==
    \E u \in BagToSet(others(task)) :
        k \in DOMAIN (IF task.name \in CellTasks THEN u.session.cell
                      ELSE u.session.wifi)

\* ------------------------------------------------- the functions of tasks.py

\* measure_data of the report with id i
measure_data(i) == [id |-> i, radio |-> measure[i].radio]

create_cell_measure_raises(entry) == ~({"mcc", "mnc"} \subseteq DOMAIN entry)

\* create_cell_measure, then the radio process_cell_measure resolves
create_cell_measure(md, entry) ==
    [measure_id |-> md.id,
     radio |-> IF Get(entry, "radio", "") # ""
               THEN Get(RADIO_TYPE, entry.radio, -1)
               ELSE md.radio,
     mcc |-> entry.mcc, mnc |-> entry.mnc,
     lac |-> Get(entry, "lac", 0), cid |-> Get(entry, "cid", 0)]

\* an early return on an unknown radio only
incomplete_radio(m) == m.radio = -1

\* update_cell_measure_count returns early: only complete records count
incomplete(m) == m.radio = -1 \/ m.lac = 0 \/ m.cid = 0

cell_key(m) == <<m.radio, m.mcc, m.mnc, m.lac, m.cid>>

\* the row written over the one found, without the increments
on_duplicate_replace(row) == One

\* an update that takes one off each counter
on_duplicate_down(row) ==
    [new_measures |-> row.new_measures - 1,
     total_measures |-> row.total_measures - 1]

\* ON DUPLICATE KEY UPDATE new_measures = new_measures + 1,
\*                         total_measures = total_measures + 1
on_duplicate(row) ==
    [new_measures |-> row.new_measures + 1,
     total_measures |-> row.total_measures + 1]

\* an insert that leaves a row it finds as it is
insert_ignore(table, own, k) ==
    LET rows == Visible(table, own)
    IN  [x \in DOMAIN own \cup {k} |->
            IF x # k THEN own[x]
            ELSE IF k \in DOMAIN rows THEN rows[k] ELSE One]

\* INSERT ... VALUES (new_measures=1, total_measures=1) ON DUPLICATE KEY
\* UPDATE, run under the row lock: the row this session then holds
insert_on_duplicate(table, own, k) ==
    LET rows == Visible(table, own)
    IN  [x \in DOMAIN own \cup {k} |->
            IF x # k THEN own[x]
            ELSE IF k \in DOMAIN rows THEN on_duplicate(rows[k]) ELSE One]

\* process_score(userid, n, session, key=kind): a credit written through
\* the session of the task
process_score(userid, n, kind, station) ==
    [userid |-> userid, key |-> kind, value |-> n, station |-> station]

convert_frequency_raises(entry) ==
    Get(entry, "frequency", 0) # 0 /\ "channel" \notin DOMAIN entry

\* the entry after convert_frequency: frequency popped, channel derived
convert_frequency(entry) ==
    LET freq == Get(entry, "frequency", 0)
        derive == freq # 0 /\ "channel" \in DOMAIN entry /\ entry["channel"] = 0
    IN  [f \in DOMAIN entry \ {"frequency"} |->
            IF f = "channel" /\ derive /\ 2411 < freq /\ freq < 2473
            THEN (freq - 2407) \div 5
            ELSE IF f = "channel" /\ derive /\ 5169 < freq /\ freq < 5826
            THEN (freq - 5000) \div 5
            ELSE entry[f]]

create_wifi_measure(md, entry) ==
    IF "id" \in DOMAIN entry
    THEN [measure_id |-> md.id, key |-> entry.key,
          channel |-> Get(entry, "channel", 0), id |-> entry.id]
    ELSE [measure_id |-> md.id, key |-> entry.key,
          channel |-> Get(entry, "channel", 0)]

\* ------------------------------------------------------- steps of a task

kind(task) == IF task.name \in CellTasks THEN "cell" ELSE "wifi"

\* the entries process_*_measure is called with for the report at hand
entries(task) == measure[task.measures[task.mi]][kind(task)]

the_entry(task) == entries(task)[task.ei]

the_data(task) == measure_data(task.measures[task.mi])

\* the locals of a task body that has ended
Ended(task) ==
    [task EXCEPT !.measures = <<>>, !.mi = 0, !.ei = 0, !.new = 0,
                 !.wifis = {}, !.blacked = {}, !.cur = <<>>,
                 !.session = NoSession]

\* a retry that is granted once more at the ceiling
retry_once_more(task, exc) ==
    IF task.retries <= MaxRetries
    THEN [Ended(task) EXCEPT !.pc = "queued", !.retries = @ + 1, !.exc = exc]
    ELSE [Ended(task) EXCEPT !.pc = "abandoned", !.exc = exc]

\* self.retry(exc=exc): back on the queue, or given up at the ceiling
retry(task, exc) ==
    IF task.retries < MaxRetries
    THEN [Ended(task) EXCEPT !.pc = "queued", !.retries = @ + 1, !.exc = exc]
    ELSE [Ended(task) EXCEPT !.pc = "abandoned", !.exc = exc]

\* except clauses that retry whatever was raised
on_exception_retry(task, exc) == retry(task, exc)

\* the except clauses of the four tasks; the session scope is left without
\* a commit, which drops what the session wrote
on_exception(task, exc) ==
    IF exc = "IntegrityError"
    THEN [Ended(task) EXCEPT !.pc = "done", !.result = 0, !.exc = exc]
    ELSE retry(task, exc)

\* where the body goes on with report number task.mi: process_wifi_measure
\* starts with its queries, process_cell_measure with its first entry;
\* past the last report, session.commit()
RECURSIVE enter_measure(_)

\* a body that commits inside its loop, after the first report
enter_measure_first(task) ==
    IF task.mi > Min(1, Len(task.measures)) THEN [task EXCEPT !.pc = "commit"]
    ELSE IF kind(task) = "wifi" THEN [task EXCEPT !.pc = "process"]
    ELSE [task EXCEPT !.pc = "entry", !.ei = 1, !.cur = <<>>]

enter_measure(task) ==
    IF task.mi > Len(task.measures) THEN [task EXCEPT !.pc = "commit"]
    ELSE IF kind(task) = "wifi" THEN [task EXCEPT !.pc = "process"]
    ELSE IF entries(task) = <<>>
         THEN enter_measure([task EXCEPT !.mi = @ + 1])
         ELSE [task EXCEPT !.pc = "entry", !.ei = 1, !.cur = <<>>]

\* session.add_all(...) and the return of process_*_measure
add_all(task) ==
    enter_measure([task EXCEPT !.session.rows = @ \o task.cur, !.cur = <<>>,
                               !.wifis = {}, !.blacked = {},
                               !.mi = @ + 1, !.ei = 0, !.new = 0])

\* the loop over the entries goes on, or ends
next_entry(task) ==
    IF task.ei < Len(entries(task))
    THEN [task EXCEPT !.ei = @ + 1, !.pc = "entry", !.new = 0]
    ELSE add_all(task)

\* the reports a task body works on: the arguments of an insert task, the
\* rows of measure with a payload of the kind for a reprocess task
loaded(task) ==
    IF task.name \in InsertTasks THEN task.ids
    ELSE SortedSeq({task.ids[n] : n \in DOMAIN task.ids}
                   \cap {i \in DOMAIN measure : kind(task) \in DOMAIN measure[i]})

\* the blacklist query that finds nothing
blacked_query_none(wifi_keys) == {}

\* session.query(WifiBlacklist.key).filter(WifiBlacklist.key.in_(wifi_keys))
blacked_query(wifi_keys) == wifi_keys \cap wifi_blacklist

\* the head of process_wifi_measure: the blacklist and registry queries
process_wifi_measure(task) ==
    LET es == entries(task)
        wifi_keys == {es[n].key : n \in DOMAIN es}
        known == DOMAIN Visible(wifi, task.session.wifi)
    IN  IF \E n \in DOMAIN es : "key" \notin DOMAIN es[n]
        THEN on_exception(task, "KeyError")
        ELSE LET t1 == [task EXCEPT !.blacked = blacked_query(wifi_keys),
                                    !.wifis = wifi_keys \cap known,
                                    !.cur = <<>>, !.ei = 1, !.pc = "entry"]
             IN  IF es = <<>> THEN add_all(t1) ELSE t1

\* one turn of the loop of process_wifi_measure, up to the upsert
process_wifi_entry(task) ==
    LET entry == the_entry(task)
        wifi_key == entry.key
    IN  IF convert_frequency_raises(entry)
        THEN on_exception(task, "KeyError")
        ELSE LET row == create_wifi_measure(the_data(task), convert_frequency(entry))
                 t1 == [task EXCEPT !.cur = Append(@, row)]
             IN  IF wifi_key \in task.blacked
                 THEN next_entry(t1)
                 ELSE [t1 EXCEPT !.new = IF wifi_key \in task.wifis THEN 0 ELSE 1,
                                 !.wifis = @ \cup {wifi_key},
                                 !.pc = "upsert"]

\* one turn of the loop of process_cell_measure, up to the upsert: the
\* record is built, and a complete one is looked up in the registry
process_cell_entry(task) ==
    LET entry == the_entry(task)
    IN  IF create_cell_measure_raises(entry)
        THEN on_exception(task, "KeyError")
        ELSE LET m == create_cell_measure(the_data(task), entry)
             IN  IF incomplete(m)
                 THEN next_entry([task EXCEPT !.cur = Append(@, m)])
                 ELSE [task EXCEPT
                         !.new = IF cell_key(m) \in
                                      DOMAIN Visible(cell, task.session.cell)
                                 THEN 0 ELSE 1,
                         !.pc = "upsert"]

\* the turns of the loop of process_wifi_measure that follow without a
\* statement of the session in between
RECURSIVE wifi_entries(_)
wifi_entries(task) ==
    IF task.pc = "entry" /\ kind(task) = "wifi"
    THEN wifi_entries(process_wifi_entry(task))
    ELSE task

\* the station the task at its upsert is about
station(task) ==
    IF kind(task) = "cell"
    THEN cell_key(create_cell_measure(the_data(task), the_entry(task)))
    ELSE the_entry(task).key

\* a credit for every new station, whoever the task was run for
credit_any_user(task) ==
    IF task.new > 0
    THEN IF kind(task) = "cell"
         THEN <<process_score(task.userid, task.new, "new_cell", station(task))>>
         ELSE <<process_score(task.userid, task.new, "new_wifi", <<station(task)>>)>>
    ELSE <<>>

\* the credit process_score adds when the station was taken for new
credit(task) ==
    IF task.userid # NoUser /\ task.new > 0
    THEN IF kind(task) = "cell"
         THEN <<process_score(task.userid, task.new, "new_cell", station(task))>>
         ELSE <<process_score(task.userid, task.new, "new_wifi", <<station(task)>>)>>
    ELSE <<>>

\* the rest of update_cell_measure_count: the upsert and the score
update_cell_measure_count(task) ==
    LET m == create_cell_measure(the_data(task), the_entry(task))
    IN  next_entry([task EXCEPT
            !.session.cell = insert_on_duplicate(cell, @, cell_key(m)),
            !.session.score = @ \o credit(task),
            !.cur = Append(@, m)])

\* the rest of update_wifi_measure_count: the upsert and the score
update_wifi_measure_count(task) ==
    wifi_entries(next_entry([task EXCEPT
        !.session.wifi = insert_on_duplicate(wifi, @, station(task)),
        !.session.score = @ \o credit(task)]))

\* ------------------------------------------------------------- the sweep

\* the derived table of a kind
derived(k) == IF k = "cell" THEN cell_measure ELSE wifi_measure

has_rows(k, i) == \E r \in BagToSet(derived(k)) : r.measure_id = i

\* the sweep's query without its anti-join
unlinked_all(k, lower, upper) ==
    SortedSeq({i \in DOMAIN measure :
                 /\ k \in DOMAIN measure[i]
                 /\ i > lower /\ i < upper})

\* select measure.id from measure left join <kind>_measure ... where
\* <kind>_measure.measure_id is null and measure.<kind> is not null and
\* measure.id > lower and measure.id < upper
unlinked(k, lower, upper) ==
    SortedSeq({i \in DOMAIN measure :
                 /\ ~has_rows(k, i)
                 /\ k \in DOMAIN measure[i]
                 /\ i > lower /\ i < upper})

\* chunks that each start one id after the start of the one before
chunks_sliding(ids, batch) ==
    [n \in 1..Len(ids) |-> Slice(ids, n - 1, n - 1 + batch)]

\* [ids[i:i + batch] for i in range(0, len(ids), batch)]
chunks(ids, batch) ==
    [n \in 1..((Len(ids) + batch - 1) \div batch) |->
        Slice(ids, (n - 1) * batch, (n - 1) * batch + batch)]

\* the reprocess tasks a sweep puts on the queue
delayed(name, ids, batch) ==
    LET parts == chunks(ids, batch)
    IN  [n \in DOMAIN parts |-> NewTask(name, parts[n], NoUser)]

stores == <<measure, wifi_blacklist>>
tables == <<cell, wifi, cell_measure, wifi_measure, score>>

schedule_cell_cleanup(lower, upper, batch) ==
    LET ids == unlinked("cell", lower, upper)
        new == delayed("reprocess_cell_measure", ids, batch)
    IN  /\ BagCardinality(tasks) < MaxTasks
        /\ BagCardinality(tasks) + Len(new) <= MaxTasks
        /\ tasks' = tasks (+) SeqToBag(new)
        /\ ret' = <<[kind |-> "cell", value |-> Len(ids)]>>
        /\ UNCHANGED <<stores, tables, faults>>

schedule_wifi_cleanup(lower, upper, batch) ==
    LET ids == unlinked("wifi", lower, upper)
        new == delayed("reprocess_wifi_measure", ids, batch)
    IN  /\ BagCardinality(tasks) < MaxTasks
        /\ BagCardinality(tasks) + Len(new) <= MaxTasks
        /\ tasks' = tasks (+) SeqToBag(new)
        /\ ret' = <<[kind |-> "wifi", value |-> Len(ids)]>>
        /\ UNCHANGED <<stores, tables, faults>>

\* --------------------------------------------------------------- actions

\* the queue is handed the insert task of a stored report (the submit path
\* calls insert_*_measure.delay once; delivery is at least once)
deliver(name, i, userid) ==
    /\ BagCardinality(tasks) < MaxTasks
    /\ kind([name |-> name]) \in DOMAIN measure[i]
    /\ tasks' = tasks (+) SetToBag({NewTask(name, <<i>>, userid)})
    /\ ret' = <<>>
    /\ UNCHANGED <<stores, tables, faults>>

\* the body from a query of the registry to its next statement
query(task) ==
    IF task.pc = "process" THEN wifi_entries(process_wifi_measure(task))
    ELSE IF task.pc = "entry" THEN process_cell_entry(task)
    ELSE task

\* a worker takes the task: the body opens its session, loads the raw
\* observations (a reprocess task) and runs up to its first upsert
begin(t) ==
    /\ t.pc = "queued"
    /\ tasks' = moved(t, query(enter_measure([t EXCEPT !.exc = None,
                                                       !.measures = loaded(t),
                                                       !.mi = 1])))
    /\ ret' = <<>>
    /\ UNCHANGED <<stores, tables, faults>>

\* the body goes on with a query of the registry
step(t) ==
    /\ t.pc \in {"process", "entry"}
    /\ tasks' = moved(t, query(t))
    /\ ret' = <<>>
    /\ UNCHANGED <<stores, tables, faults>>

\* session.execute(stmt) of the upsert, once the row lock is free, and
\* process_score when the station was taken for new
upsert(t) ==
    /\ t.pc = "upsert"
    /\ ~Locked(t, station(t))
    /\ tasks' = moved(t, IF kind(t) = "cell" THEN update_cell_measure_count(t)
                         ELSE update_wifi_measure_count(t))
    /\ ret' = <<>>
    /\ UNCHANGED <<stores, tables, faults>>

\* process_score raises after the upsert was executed
score_raises(t) ==
    /\ t.pc = "upsert"
    /\ ~Locked(t, station(t))
    /\ credit(t) # <<>>
    /\ faults < MaxFaults
    /\ faults' = faults + 1
    /\ tasks' = moved(t, on_exception(t, "ScoreError"))
    /\ ret' = <<>>
    /\ UNCHANGED <<stores, tables>>

\* the database raises in a statement of the session: a uniqueness
\* violation, or a failure of the storage layer (a deadlock, a lost
\* connection)
StoreErrors == {"IntegrityError", "OperationalError"}

store_raises(t, exc) ==
    /\ t.pc \in {"upsert", "commit"}
    /\ faults < MaxFaults
    /\ faults' = faults + 1
    /\ tasks' = moved(t, on_exception(t, exc))
    /\ ret' = <<>>
    /\ UNCHANGED <<stores, tables>>

\* the flush finds an explicit id of a pending row taken
duplicate_id(rows) ==
    \E n \in DOMAIN rows :
        /\ "id" \in DOMAIN rows[n]
        /\ \/ \E r \in BagToSet(wifi_measure) : "id" \in DOMAIN r /\ r.id = rows[n].id
           \/ \E m \in DOMAIN rows \ {n} : "id" \in DOMAIN rows[m] /\ rows[m].id = rows[n].id

\* what the task returns after its commit
returned(task) ==
    IF task.name \in InsertTasks THEN Len(task.session.rows) ELSE Len(task.measures)

\* session.commit(): the pending rows are flushed and the session's writes
\* become the tables' rows
commit(t) ==
    LET s == t.session
    IN  /\ t.pc = "commit"
        /\ IF duplicate_id(s.rows)
           THEN /\ tasks' = moved(t, on_exception(t, "IntegrityError"))
                /\ UNCHANGED tables
           ELSE /\ cell' = Visible(cell, s.cell)
                /\ wifi' = Visible(wifi, s.wifi)
                /\ cell_measure' = IF kind(t) = "cell"
                                   THEN cell_measure (+) SeqToBag(s.rows)
                                   ELSE cell_measure
                /\ wifi_measure' = IF kind(t) = "wifi"
                                   THEN wifi_measure (+) SeqToBag(s.rows)
                                   ELSE wifi_measure
                /\ score' = score (+) SeqToBag(s.score)
                /\ tasks' = moved(t, [Ended(t) EXCEPT !.pc = "done",
                                                      !.result = returned(t)])
        /\ ret' = <<>>
        /\ UNCHANGED <<stores, faults>>

Next ==
    \/ \E name \in InsertTasks, i \in DOMAIN measure, userid \in Users :
          deliver(name, i, userid)
    \/ \E lower \in 0..MaxLower, upper \in Len(measure)..(Len(measure) + 1),
          batch \in 1..MaxBatch :
          schedule_cell_cleanup(lower, upper, batch)
    \/ \E lower \in 0..MaxLower, upper \in Len(measure)..(Len(measure) + 1),
          batch \in 1..MaxBatch :
          schedule_wifi_cleanup(lower, upper, batch)
    \/ \E t \in BagToSet(tasks) : begin(t)
    \/ \E t \in BagToSet(tasks) : step(t)
    \/ \E t \in BagToSet(tasks) : upsert(t)
    \/ \E t \in BagToSet(tasks) : score_raises(t)
    \/ \E t \in BagToSet(tasks), exc \in StoreErrors : store_raises(t, exc)
    \/ \E t \in BagToSet(tasks) : commit(t)

Spec == Init /\ [][Next]_vars

\* a worker runs the body of a task it was handed: the workers take what
\* is on the queue, and a body that can go on does
work ==
    \E t \in BagToSet(tasks) : begin(t) \/ step(t) \/ upsert(t) \/ commit(t)

\* a body can go on: work is enabled (the guards of begin, step, upsert
\* and commit)
can_work ==
    \E t \in BagToSet(tasks) :
        \/ t.pc \in {"queued", "process", "entry", "commit"}
        \/ t.pc = "upsert" /\ ~Locked(t, station(t))

\* weak fairness of work, written with its enabling condition: work is
\* not enabled for ever without being taken
FairSpec == Spec /\ ([]<>(~can_work) \/ []<><<work>>_vars)

\* ---------------------------------------------- the tasks on one wifi entry

\* the limits of the two bands in convert_frequency (both excluded)
Low24 == 2411
High24 == 2473
Low5 == 5169
High5 == 5826

\* the frequencies an entry may carry: 0, every one from limit to limit of
\* each band, and one between the bands
Freqs == {0, 3000} \cup (Low24..High24) \cup (Low5..High5)

\* the channels an entry may carry
Channels == {0, 3}

\* wifi entries with and without a channel and a frequency
FreqEntries ==
    {[key |-> "a", channel |-> c, frequency |-> f] : c \in Channels, f \in Freqs}
    \cup {[key |-> "a", frequency |-> f] : f \in Freqs}
    \cup {[key |-> "a", channel |-> c] : c \in Channels}
    \cup {[key |-> "a"]}

\* a store with one report of one wifi entry
FreqInit ==
    /\ \E e \in FreqEntries : measure = <<[radio |-> 0, wifi |-> <<e>>]>>
    /\ wifi_blacklist = {}
    /\ wifi = <<>>
    /\ wifi_measure = EmptyBag
    /\ cell = <<>>
    /\ cell_measure = EmptyBag
    /\ score = EmptyBag
    /\ tasks = EmptyBag
    /\ faults = 0
    /\ ret = <<>>

\* insert_wifi_measure on the report, without failures of the store
FreqNext ==
    \/ \E userid \in Users : deliver("insert_wifi_measure", 1, userid)
    \/ \E t \in BagToSet(tasks) : begin(t)
    \/ \E t \in BagToSet(tasks) : upsert(t)
    \/ \E t \in BagToSet(tasks) : commit(t)

FreqSpec == FreqInit /\ [][FreqNext]_vars

\* ------------------------------------------------- what the claims speak of

RECURSIVE SumFn(_)
SumFn(f) ==
    IF DOMAIN f = {} THEN 0
    ELSE LET x == CHOOSE y \in DOMAIN f : TRUE
         IN  f[x] + SumFn([y \in DOMAIN f \ {x} |-> f[y]])

\* the store the run began with
initial == CHOOSE s \in Stores : s.measure = measure

\* the registry of a kind and what it held at the start
registry(k) == IF k = "cell" THEN cell ELSE wifi
registry0(k) == IF k = "cell" THEN <<>> ELSE initial.wifi
derived0(k) == IF k = "cell" THEN EmptyBag ELSE initial.wifi_measure

\* total_observations of a station, 0 when it has no record
total(reg, st) == IF st \in DOMAIN reg THEN reg[st].total_measures ELSE 0
fresh(reg, st) == IF st \in DOMAIN reg THEN reg[st].new_measures ELSE 0

\* the entries of kind k in the report with id i (none without a payload)
payload(k, i) == IF k \in DOMAIN measure[i] THEN measure[i][k] ELSE <<>>

\* an entry that carries its required keys
valid(k, entry) ==
    IF k = "cell" THEN ~create_cell_measure_raises(entry)
    ELSE "key" \in DOMAIN entry /\ ~convert_frequency_raises(entry)

\* the station key of a valid entry, as a sighting in report i
key_of(k, i, entry) ==
    IF k = "cell" THEN cell_key(create_cell_measure(measure_data(i), entry))
    ELSE entry.key

\* a valid entry whose station is to be counted: a complete cell, a wifi
\* that is not blacklisted
counted(k, i, entry) ==
    /\ valid(k, entry)
    /\ IF k = "cell" THEN ~incomplete(create_cell_measure(measure_data(i), entry))
       ELSE entry.key \notin wifi_blacklist

\* the station keys the stored reports can give rise to
stations(k) ==
    UNION {{key_of(k, i, payload(k, i)[n]) :
              n \in {m \in DOMAIN payload(k, i) : counted(k, i, payload(k, i)[m])}} :
           i \in DOMAIN measure}

\* how many entries of report i are counted sightings of station st
sightings(k, i, st) ==
    Cardinality({n \in DOMAIN payload(k, i) :
                   /\ counted(k, i, payload(k, i)[n])
                   /\ key_of(k, i, payload(k, i)[n]) = st})

\* the task instance has committed
committed(task) == task.pc = "done" /\ task.exc = None

\* the committed task instances of kind k, with their numbers
commits(k) ==
    [r \in {x \in BagToSet(tasks) : committed(x) /\ kind(x) = k} |->
        CopiesIn(r, tasks)]

\* the ids a task instance is about
ids_of(task) == {task.ids[n] : n \in DOMAIN task.ids}

\* the sightings of station st in all committed runs of kind k
upserts(k, st) ==
    SumFn([r \in DOMAIN commits(k) |->
             commits(k)[r] * SumFn([i \in ids_of(r) |-> sightings(k, i, st)])])

\* the credits the score holds for station st of kind k
credits(k, st) ==
    SumFn([c \in {x \in BagToSet(score) :
                    x.station = (IF k = "cell" THEN st ELSE <<st>>)} |->
             CopiesIn(c, score) * c.value])

\* the derived rows of kind k that belong to report i
rows_of(k, i) ==
    SumFn([r \in {x \in BagToSet(derived(k)) : x.measure_id = i} |->
             CopiesIn(r, derived(k))])

Kinds == {"cell", "wifi"}

\* every task instance has ended
quiet == \A r \in BagToSet(tasks) : r.pc \in {"done", "abandoned"}

\* ---------------------------------------------------------------- claims

\* the station had no record when the run began
unseen(k, st) == st \notin DOMAIN registry0(k)

\* every task instance is an insert task that has committed
all_inserted ==
    \A r \in BagToSet(tasks) : r.name \in InsertTasks /\ committed(r)

\* how often the queue was handed the task with this name and these ids
deliveries(name, ids) ==
    SumFn([r \in {x \in BagToSet(tasks) : x.name = name /\ x.ids = ids} |->
             CopiesIn(r, tasks)])

\* no task was handed to the queue twice
delivered_once ==
    \A r \in BagToSet(tasks) : deliveries(r.name, r.ids) = 1

\* C1: when the insert tasks (each delivered once) that sighted a station
\* without a record have all committed, however they interleaved, exactly
\* one of them took the station for new: the score holds exactly one
\* credit for it.
C1_OneNewCredit ==
    all_inserted /\ delivered_once =>
        \A k \in Kinds : \A st \in stations(k) :
            unseen(k, st) /\ upserts(k, st) > 0 => credits(k, st) = 1

\* C2: a station without a record at the start has, whatever the
\* interleaving, one record whose total_observations and new_observations
\* both equal the number of committed upserts of it, and no record
\* before the first commit.
C2_NoLostUpdate ==
    \A k \in Kinds : \A st \in stations(k) :
        unseen(k, st) =>
            /\ total(registry(k), st) = upserts(k, st)
            /\ fresh(registry(k), st) = upserts(k, st)
            /\ st \in DOMAIN registry(k) <=> upserts(k, st) > 0

\* two task instances that both took the station for new (they overlapped)
\* have committed, and the record counts both
C2_Witness ==
    \E k \in Kinds : \E st \in stations(k) :
        /\ unseen(k, st)
        /\ credits(k, st) = 2
        /\ upserts(k, st) = 2
        /\ total(registry(k), st) = 2

\* the insert task of a kind
insert_task(k) == IF k = "cell" THEN "insert_cell_measure" ELSE "insert_wifi_measure"

\* the reports of kind k of which a run of task name has committed
done_reports(k, names) ==
    {i \in DOMAIN measure :
        \E r \in DOMAIN commits(k) : r.name \in names /\ i \in ids_of(r)}

\* the derived rows of kind k report i had at the start
rows0(k, i) ==
    SumFn([r \in {x \in BagToSet(derived0(k)) : x.measure_id = i} |->
             CopiesIn(r, derived0(k))])

\* the counted sightings of station st in a set of reports, each once
once_each(k, reports, st) == SumFn([i \in reports |-> sightings(k, i, st)])

\* C3: when every task instance is an insert task that has ended, then
\* however often a task was delivered, each report with a committed run
\* has its derived rows once and each station counter has risen by the
\* sightings of those reports, each counted once.
C3_ExactlyOnce ==
    (\A r \in BagToSet(tasks) : r.name \in InsertTasks /\ r.pc = "done") =>
        \A k \in Kinds :
            /\ \A i \in done_reports(k, InsertTasks) :
                  rows_of(k, i) - rows0(k, i) = Len(payload(k, i))
            /\ \A st \in stations(k) :
                  total(registry(k), st) - total(registry0(k), st)
                    = once_each(k, done_reports(k, InsertTasks), st)

\* the rows of wifi_measure with a key
key_rows(bag, key) ==
    SumFn([r \in {x \in BagToSet(bag) : x.key = key} |-> CopiesIn(r, bag)])

\* the entries of report i that name a wifi key
entries_with(i, key) ==
    Cardinality({n \in DOMAIN payload("wifi", i) :
                   /\ "key" \in DOMAIN payload("wifi", i)[n]
                   /\ payload("wifi", i)[n].key = key})

\* the entries with a key in all committed wifi runs
stored(key) ==
    SumFn([r \in DOMAIN commits("wifi") |->
             commits("wifi")[r] * SumFn([i \in ids_of(r) |-> entries_with(i, key)])])

\* C4: for a blacklisted wifi key every committed batch adds one
\* wifi_measure row per entry with the key, the registry row of the key is
\* neither created nor changed, and the score holds no credit for it.
C4_BlacklistedOnlyStored ==
    \A key \in wifi_blacklist :
        /\ key_rows(wifi_measure, key) = key_rows(initial.wifi_measure, key) + stored(key)
        /\ key \in DOMAIN wifi <=> key \in DOMAIN initial.wifi
        /\ key \in DOMAIN wifi => wifi[key] = initial.wifi[key]
        /\ credits("wifi", key) = 0

\* a batch with two entries for a blacklisted key has committed
C4_Witness ==
    \E key \in wifi_blacklist : \E r \in DOMAIN commits("wifi") :
        /\ \E i \in ids_of(r) : entries_with(i, key) = 2
        /\ key_rows(wifi_measure, key) >= 2
        /\ key \in DOMAIN wifi

\* C5: when every task instance is a reprocess task, so that only sweeps
\* have run, in whatever number and interleaving with the tasks they
\* enqueued, no report has more derived rows than entries and no station
\* counter has risen by more than the sightings of the reports swept.
C5_SweepHarmless ==
    (\A r \in BagToSet(tasks) : r.name \in ReprocessTasks) =>
        \A k \in Kinds :
            /\ \A i \in DOMAIN measure : rows_of(k, i) <= Len(payload(k, i))
            /\ \A st \in stations(k) :
                  total(registry(k), st) - total(registry0(k), st)
                    <= once_each(k, done_reports(k, ReprocessTasks), st)

\* the task instances a step has added, and the ones it has moved on
added(old, new) == {r \in BagToSet(new) : CopiesIn(r, new) > CopiesIn(r, old)}
left(old, new) == {r \in BagToSet(old) : CopiesIn(r, new) < CopiesIn(r, old)}

\* C6: no chunk a sweep submits holds the id of a raw observation that
\* had committed derived rows of the swept kind when the sweep ran.
C6_SweepSkipsProcessed ==
    [][ret' # <<>> =>
          \A r \in added(tasks, tasks') : \A i \in ids_of(r) :
              ~has_rows(ret'[1].kind, i)]_vars

\* a sweep has just run and found work, and a report that lies in every
\* range swept has derived rows and is in none of the chunks
C6_Witness ==
    /\ ret # <<>>
    /\ ret[1].value > 0
    /\ \E i \in DOMAIN measure :
          /\ i > MaxLower /\ i < Len(measure)
          /\ has_rows(ret[1].kind, i)
          /\ \A r \in BagToSet(tasks) : r.name \in ReprocessTasks => i \notin ids_of(r)

\* the reports a task instance loads
loads_of(task) == {i \in ids_of(task) : kind(task) \in DOMAIN measure[i]}

\* C7: without failures of the store, a task that has ended has left the
\* derived rows of every report it was given that holds a valid entry,
\* also when another entry of the report lacks a required key.
C7_PartialSuccess ==
    faults = 0 =>
        \A r \in BagToSet(tasks) :
            r.pc \in {"done", "abandoned"} =>
                \A i \in loads_of(r) :
                    (\E n \in DOMAIN payload(kind(r), i) :
                        valid(kind(r), payload(kind(r), i)[n]))
                    => has_rows(kind(r), i)

\* the entries of all the reports a task instance loads
entries_of(task) ==
    SumFn([i \in loads_of(task) |-> Len(payload(kind(task), i))])

\* C8: a reprocess task changes the tables in one step only, its commit,
\* taken after the last loaded report was processed, which adds the rows of
\* all its reports at once; any other step of it, and so one that ends it
\* by an exception, leaves the tables as they were and drops the session.
C8_AllOrNothing ==
    [][\A r \in left(tasks, tasks') :
          r.name \in ReprocessTasks =>
              IF \E q \in added(tasks, tasks') : committed(q)
              THEN /\ r.pc = "commit"
                   /\ r.mi > Len(r.measures)
                   /\ Len(r.measures) = Cardinality(loads_of(r))
                   /\ BagCardinality(IF kind(r) = "cell" THEN cell_measure'
                                     ELSE wifi_measure')
                        = BagCardinality(derived(kind(r))) + entries_of(r)
              ELSE /\ tables' = tables
                   /\ \A q \in added(tasks, tasks') :
                         q.pc \in {"queued", "abandoned", "done"}
                             => q.session = NoSession]_vars

\* a reprocess task of two reports raised on the second one (an entry
\* without mcc) until it was given up, and no row of either is stored
C8_Witness ==
    \E r \in BagToSet(tasks) :
        /\ r.name \in ReprocessTasks
        /\ Len(r.ids) = 2
        /\ r.pc = "abandoned" /\ r.exc = "KeyError"
        /\ \E i \in ids_of(r) : \A n \in DOMAIN payload(kind(r), i) :
               valid(kind(r), payload(kind(r), i)[n])
        /\ \A i \in ids_of(r) : ~has_rows(kind(r), i)

\* C9: after process_score has raised in a task, the registry holds the
\* record of a station the task sighted: the upsert that led to the score
\* call is committed.
C9_ScoreFailureKeepsUpsert ==
    \A r \in BagToSet(tasks) :
        r.exc = "ScoreError" =>
            \E i \in loads_of(r) : \E n \in DOMAIN payload(kind(r), i) :
                /\ counted(kind(r), i, payload(kind(r), i)[n])
                /\ key_of(kind(r), i, payload(kind(r), i)[n])
                     \in DOMAIN registry(kind(r))

\* C10: a task that hits an IntegrityError ends with result 0, in the step
\* that raised it, with its session dropped and the tables unchanged, at
\* the retry count it had; it is never taken up again.
C10_ConflictZeroEffect ==
    [][/\ \A q \in BagToSet(tasks') :
             q.exc = "IntegrityError" =>
                 /\ q.pc = "done" /\ q.result = 0 /\ q.session = NoSession
                 /\ q \in added(tasks, tasks') =>
                        /\ tables' = tables
                        /\ \E r \in left(tasks, tasks') :
                              /\ r.name = q.name /\ r.ids = q.ids
                              /\ r.retries = q.retries
       /\ \A q \in BagToSet(tasks) :
             q.exc = "IntegrityError" => q \notin left(tasks, tasks')]_vars

\* a task has ended with result 0 on a row id that was taken, without any
\* failure of the store
C10_Witness ==
    \E r \in BagToSet(tasks) :
        r.exc = "IntegrityError" /\ r.pc = "done" /\ r.result = 0 /\ faults = 0

\* the ways a task ends
Outcomes == {"committed", "zero-effect", "abandoned"}

outcome(task) ==
    IF task.pc = "abandoned" THEN "abandoned"
    ELSE IF task.pc = "done" /\ task.exc = "IntegrityError" THEN "zero-effect"
    ELSE IF committed(task) THEN "committed"
    ELSE "running"

\* a task instance that holds an exception other than a uniqueness
\* violation is back on the queue with a retry counted, or given up at the
\* ceiling; no instance has more retries than the ceiling
retried ==
    \A r \in BagToSet(tasks) :
        /\ r.retries <= MaxRetries
        /\ r.exc \notin {None, "IntegrityError"} =>
              \/ r.pc = "queued" /\ r.retries >= 1
              \/ r.pc = "abandoned" /\ r.retries = MaxRetries

\* the step that raises hands the instance to retry: one more retry below
\* the ceiling, given up at it
requeued ==
    \A q \in added(tasks, tasks') :
        q.exc \notin {None, "IntegrityError"} /\ q.pc \in {"queued", "abandoned"} =>
            \E r \in left(tasks, tasks') :
                /\ r.name = q.name /\ r.ids = q.ids
                /\ r.pc \notin {"done", "abandoned"}
                /\ IF r.retries < MaxRetries
                   THEN q.pc = "queued" /\ q.retries = r.retries + 1
                   ELSE q.pc = "abandoned" /\ q.retries = r.retries

\* C11: a task that fails with anything but a uniqueness violation is
\* requeued by retry, at most MaxRetries times (MaxRetries + 1 attempts);
\* and with the workers running, time and again every task instance has
\* ended, each in one of: committed, zero-effect completion, abandoned.
C11_RetriedThenEnded ==
    /\ [](retried)
    /\ [][requeued]_vars
    /\ []<>(\A r \in BagToSet(tasks) : outcome(r) \in Outcomes)

\* all instances have ended: one was retried and then committed, one was
\* given up at the ceiling
C11_Witness ==
    /\ \A r \in BagToSet(tasks) : outcome(r) \in Outcomes
    /\ \E r \in BagToSet(tasks) : outcome(r) = "committed" /\ r.retries = MaxRetries
    /\ \E r \in BagToSet(tasks) : outcome(r) = "abandoned" /\ r.retries = MaxRetries

\* the sweep of a kind
sweep(k, lower, upper, batch) ==
    IF k = "cell" THEN schedule_cell_cleanup(lower, upper, batch)
    ELSE schedule_wifi_cleanup(lower, upper, batch)

\* the ranges and batch sizes the sweeps are called with
Lowers == 0..MaxLower
Uppers == Len(measure)..(Len(measure) + 1)
Batches == 1..MaxBatch

\* the ids in the chunks a step has put on the queue
swept(old, new) == UNION {ids_of(r) : r \in added(old, new)}

\* the ids in lower <= i < upper with a payload of the kind and no derived
\* row of the kind
in_range(k, lower, upper) ==
    {i \in DOMAIN measure :
        /\ lower <= i /\ i < upper
        /\ k \in DOMAIN measure[i]
        /\ ~has_rows(k, i)}

\* C12: a sweep called with lower and upper puts exactly the ids i with
\* lower <= i < upper that have a payload of the swept kind and no derived
\* row of that kind on the queue, and returns their number.
C12_SweepRange ==
    [][\A k \in Kinds, lower \in Lowers, upper \in Uppers, batch \in Batches :
          (ret' # <<>> /\ ret'[1].kind = k /\ sweep(k, lower, upper, batch)) =>
              /\ swept(tasks, tasks') = in_range(k, lower, upper)
              /\ ret'[1].value = Cardinality(in_range(k, lower, upper))]_vars

\* the number of task instances a step has put on the queue
enqueued(old, new) == BagCardinality(new) - BagCardinality(old)

\* the ids the query of a sweep finds, as the code finds them
found(k, lower, upper) ==
    LET ids == unlinked(k, lower, upper)
    IN  {ids[n] : n \in DOMAIN ids}

\* ids is a run of the found ids in their order: rising, and no found id
\* lies between two of them without being one of them
contiguous(ids, all) ==
    /\ \A n \in 1..(Len(ids) - 1) : ids[n] < ids[n + 1]
    /\ \A i \in all :
          (Len(ids) > 0 /\ ids[1] < i /\ i < ids[Len(ids)])
              => \E n \in DOMAIN ids : ids[n] = i

\* C13: a sweep that finds n ids with batch size b puts m reprocess tasks
\* on the queue, m the number with (m - 1) * b < n <= m * b; each holds a
\* contiguous run of 1 to b of the found ids in order, every found id is
\* in exactly one of them, and the sweep returns n (nothing is put on the
\* queue for n = 0).
C13_Chunks ==
    [][\A k \in Kinds, lower \in Lowers, upper \in Uppers, batch \in Batches :
          (ret' # <<>> /\ ret'[1].kind = k /\ sweep(k, lower, upper, batch)) =>
              LET all == found(k, lower, upper)
                  n == Cardinality(all)
                  m == enqueued(tasks, tasks')
                  new == added(tasks, tasks')
              IN  /\ ret'[1].value = n
                  /\ (m - 1) * batch < n /\ n <= m * batch
                  /\ n = 0 => tasks' = tasks
                  /\ \A r \in new :
                        /\ r.name \in ReprocessTasks /\ kind(r) = k
                        /\ r.pc = "queued" /\ r.userid = NoUser
                        /\ Len(r.ids) >= 1 /\ Len(r.ids) <= batch
                        /\ contiguous(r.ids, all)
                  /\ \A i \in all :
                        SumFn([r \in {x \in new : i \in ids_of(x)} |->
                                 CopiesIn(r, tasks') - CopiesIn(r, tasks)]) = 1
                  /\ swept(tasks, tasks') = all]_vars

\* a sweep found three ids and has put a chunk of two and a chunk of one
\* on the queue
C13_Witness ==
    /\ ret # <<>>
    /\ ret[1].value = 3
    /\ \E r, q \in BagToSet(tasks) :
          /\ r.name \in ReprocessTasks /\ q.name \in ReprocessTasks
          /\ r.pc = "queued" /\ q.pc = "queued"
          /\ Len(r.ids) = 2 /\ Len(q.ids) = 1
          /\ r.ids[2] < q.ids[1]

\* report i holds one cell entry, a complete one
one_complete_cell(i) ==
    /\ Len(payload("cell", i)) = 1
    /\ counted("cell", i, payload("cell", i)[1])

\* a cell task at its commit, run for report i alone, that commits
commits_one(r, i) ==
    /\ r \in left(tasks, tasks')
    /\ r.name \in CellTasks /\ r.pc = "commit" /\ r.measures = <<i>>
    /\ \E q \in added(tasks, tasks') : committed(q) /\ q.name = r.name /\ q.ids = r.ids

\* what the commit of report i adds: one row, one record with (1, 1)
one_row_one_record(i) ==
    LET st == key_of("cell", i, payload("cell", i)[1])
    IN  /\ BagCardinality(cell_measure') = BagCardinality(cell_measure) + 1
        /\ st \in DOMAIN cell' /\ cell'[st] = One
        /\ DOMAIN cell' = DOMAIN cell \cup {st}

\* the credits a step adds to the score
credited(old, new) == new (-) old

\* C14 as stated: processing a report with one complete cell entry whose
\* key has no record yields one cell_measure row, one record with
\* counters (1, 1) and one credit of 1 for new_cell.
C14_OneCredit ==
    [][\A r \in left(tasks, tasks'), i \in DOMAIN measure :
          (/\ commits_one(r, i) /\ one_complete_cell(i)
           /\ key_of("cell", i, payload("cell", i)[1]) \notin DOMAIN cell)
          => /\ one_row_one_record(i)
             /\ BagCardinality(credited(score, score')) = 1
             /\ \A c \in BagToSet(credited(score, score')) :
                   c.key = "new_cell" /\ c.value = 1]_vars

\* C14: processing a report with one complete cell entry whose key has no
\* record yields one cell_measure row and one record with counters (1, 1);
\* it yields one credit of 1 for new_cell, for the user of the task, when
\* the task carries a user, and no credit when it carries none.
C14_OneCreditPerUser ==
    [][\A r \in left(tasks, tasks'), i \in DOMAIN measure :
          (/\ commits_one(r, i) /\ one_complete_cell(i)
           /\ key_of("cell", i, payload("cell", i)[1]) \notin DOMAIN cell)
          => /\ one_row_one_record(i)
             /\ IF r.userid = NoUser THEN score' = score
                ELSE credited(score, score') =
                       SetToBag({process_score(r.userid, 1, "new_cell",
                                    key_of("cell", i, payload("cell", i)[1]))})]_vars

\* a task run for a user has committed a report with one complete cell
\* entry: one row, one record (1, 1), one credit
C14_Witness ==
    \E r \in BagToSet(tasks) :
        /\ committed(r) /\ r.name = "insert_cell_measure" /\ r.userid # NoUser
        /\ \A i \in ids_of(r) : one_complete_cell(i)
        /\ BagCardinality(tasks) = 1
        /\ BagCardinality(cell_measure) = 1
        /\ BagCardinality(score) = 1
        /\ \E st \in DOMAIN cell : cell[st] = One

\* the wifi task instances that have ended without a failure of the store
\* or the score
ended_wifi ==
    {r \in BagToSet(tasks) :
        r.name \in WifiTasks /\ r.pc \in {"done", "abandoned"}
        /\ r.exc \in {None, "KeyError"}}

\* the task has committed a row for entry e of report i with this channel
stored_channel(r, i, e, channel) ==
    /\ committed(r)
    /\ \E row \in BagToSet(wifi_measure) :
          row.measure_id = i /\ row.key = e.key /\ row.channel = channel

\* the frequency of an entry is in the 2.4 GHz band, in the 5 GHz band
in24(e) == Get(e, "frequency", 0) >= 2412 /\ Get(e, "frequency", 0) <= 2472
in5(e) == Get(e, "frequency", 0) >= 5170 /\ Get(e, "frequency", 0) <= 5825

\* C15: an entry whose channel is absent or zero and whose frequency f is
\* in 2412..2472 is stored with channel floor((f - 2407) / 5), and one
\* with f in 5170..5825 with channel floor((f - 5000) / 5).
C15_ChannelDerived ==
    \A r \in ended_wifi : \A i \in loads_of(r) :
        \A n \in DOMAIN payload("wifi", i) :
            LET e == payload("wifi", i)[n]
            IN  ("key" \in DOMAIN e /\ Get(e, "channel", 0) = 0) =>
                    /\ in24(e) => stored_channel(r, i, e, (e.frequency - 2407) \div 5)
                    /\ in5(e) => stored_channel(r, i, e, (e.frequency - 5000) \div 5)

\* C16: an entry whose frequency is absent, zero or outside both bands is
\* stored with the channel it carries, 0 when it carries none, and no
\* error is raised, whether or not it carries a channel.
C16_ChannelKept ==
    \A r \in ended_wifi : \A i \in loads_of(r) :
        \A n \in DOMAIN payload("wifi", i) :
            LET e == payload("wifi", i)[n]
            IN  ("key" \in DOMAIN e /\ ~in24(e) /\ ~in5(e)) =>
                    /\ r.exc = None
                    /\ stored_channel(r, i, e, Get(e, "channel", 0))

\* a task at its commit, run for report i alone, that commits
commits_report(r, i) ==
    /\ r \in left(tasks, tasks')
    /\ r.pc = "commit" /\ r.measures = <<i>>
    /\ \E q \in added(tasks, tasks') : committed(q) /\ q.name = r.name /\ q.ids = r.ids

\* the record of station st after the step is (n, n)
record_is(k, st, n) ==
    LET reg == IF k = "cell" THEN cell' ELSE wifi'
    IN  st \in DOMAIN reg /\ reg[st] = [new_measures |-> n, total_measures |-> n]

\* the credits a step adds for station st
credited_for(k, st) ==
    {c \in BagToSet(credited(score, score')) :
        c.station = (IF k = "cell" THEN st ELSE <<st>>)}

\* C17 as stated: a batch with k entries for one countable station without
\* a record leaves the record at (k, k) and issues one credit of 1 for it.
C17_OneCreditPerBatch ==
    [][\A r \in left(tasks, tasks'), i \in DOMAIN measure :
          \A st \in stations(kind(r)) :
              (/\ commits_report(r, i)
               /\ sightings(kind(r), i, st) >= 2
               /\ st \notin DOMAIN registry(kind(r)))
              => /\ record_is(kind(r), st, sightings(kind(r), i, st))
                 /\ Cardinality(credited_for(kind(r), st)) = 1
                 /\ \A c \in credited_for(kind(r), st) :
                       c.value = 1 /\ CopiesIn(c, credited(score, score')) = 1]_vars

\* C17: a batch with k entries for one countable station without a record
\* leaves the record at (k, k); it issues one credit of 1 for the station
\* when the task carries a user, and none when it carries no user.
C17_OneCreditPerBatchUser ==
    [][\A r \in left(tasks, tasks'), i \in DOMAIN measure :
          \A st \in stations(kind(r)) :
              (/\ commits_report(r, i)
               /\ sightings(kind(r), i, st) >= 2
               /\ st \notin DOMAIN registry(kind(r)))
              => /\ record_is(kind(r), st, sightings(kind(r), i, st))
                 /\ IF r.userid = NoUser THEN credited_for(kind(r), st) = {}
                    ELSE /\ Cardinality(credited_for(kind(r), st)) = 1
                         /\ \A c \in credited_for(kind(r), st) :
                               /\ c.value = 1 /\ c.userid = r.userid
                               /\ CopiesIn(c, credited(score, score')) = 1]_vars

\* a task run for a user has committed a batch that sights one station
\* twice: the record is at (2, 2) and the score holds one credit
C17_Witness ==
    \E k \in Kinds : \E r \in DOMAIN commits(k) : \E i \in ids_of(r) :
        \E st \in stations(k) :
            /\ r.userid # NoUser
            /\ BagCardinality(tasks) = 1
            /\ sightings(k, i, st) = 2
            /\ total(registry(k), st) = 2
            /\ credits(k, st) = 1

\* the registry of a kind after the step
registry_next(k) == IF k = "cell" THEN cell' ELSE wifi'

\* C18: the registry holds one record per station key (it is keyed by the
\* station key), with both counters at least 1; no step removes a record
\* or lowers a counter of one.
C18_RecordsGrow ==
    /\ [](\A k \in Kinds : \A st \in DOMAIN registry(k) :
             registry(k)[st].total_measures >= 1 /\ registry(k)[st].new_measures >= 1)
    /\ [][\A k \in Kinds : \A st \in DOMAIN registry(k) :
             /\ st \in DOMAIN registry_next(k)
             /\ registry_next(k)[st].total_measures >= registry(k)[st].total_measures
             /\ registry_next(k)[st].new_measures >= registry(k)[st].new_measures]_vars

\* two tasks have committed one sighting each of a station: the record the
\* first created was raised by the second
C18_Witness ==
    \E k \in Kinds : \E st \in DOMAIN registry(k) :
        /\ registry(k)[st] = [new_measures |-> 2, total_measures |-> 2]
        /\ BagCardinality(commits(k)) = 2
        /\ \A r \in DOMAIN commits(k) :
              SumFn([i \in ids_of(r) |-> sightings(k, i, st)]) = 1

\* the committed rows of a station: for a cell the complete rows with its
\* key, for a wifi the rows with its key
station_rows(k, st) ==
    IF k = "cell"
    THEN SumFn([r \in {x \in BagToSet(cell_measure) :
                         /\ x.radio # -1 /\ x.lac # 0 /\ x.cid # 0
                         /\ <<x.radio, x.mcc, x.mnc, x.lac, x.cid>> = st} |->
                  CopiesIn(r, cell_measure)])
    ELSE key_rows(wifi_measure, st)

\* the station keys in the registry or in the rows of a kind, without the
\* blacklisted wifi keys
conserved_keys(k) ==
    IF k = "cell"
    THEN DOMAIN cell \cup
         {<<x.radio, x.mcc, x.mnc, x.lac, x.cid>> :
            x \in {y \in BagToSet(cell_measure) :
                     y.radio # -1 /\ y.lac # 0 /\ y.cid # 0}}
    ELSE (DOMAIN wifi \cup {x.key : x \in BagToSet(wifi_measure)}) \ wifi_blacklist

\* C19: in every committed state the total of the record of a cell key is
\* the number of complete cell_measure rows with the key, and the total of
\* the record of a wifi key that is not blacklisted is the number of
\* wifi_measure rows with the key (no record where there is no row); runs
\* that failed add to neither.  It holds however often a task is
\* delivered, so also when each is delivered once.
C19_Conservation ==
    \A k \in Kinds : \A st \in conserved_keys(k) :
        /\ total(registry(k), st) = station_rows(k, st)
        /\ st \in DOMAIN registry(k) <=> station_rows(k, st) > 0

\* a station has two rows and a total of 2 while another run of the kind
\* has ended without effect
C19_Witness ==
    \E k \in Kinds : \E st \in conserved_keys(k) :
        /\ station_rows(k, st) = 2
        /\ total(registry(k), st) = 2
        /\ \E r \in BagToSet(tasks) :
              /\ kind(r) = k
              /\ r.pc = "abandoned" \/ (r.pc = "done" /\ r.exc = "IntegrityError")
              /\ \E i \in ids_of(r) : sightings(k, i, st) > 0

\* a cell row or key with an unknown radio, or with lac or cid 0
partial(radio, lac, cid) == radio = -1 \/ lac = 0 \/ cid = 0

\* the cell_measure rows of report i, in a bag, that are partial
partial_rows(bag, i) ==
    SumFn([r \in {x \in BagToSet(bag) :
                    x.measure_id = i /\ partial(x.radio, x.lac, x.cid)} |->
             CopiesIn(r, bag)])

\* the entries of report i that make partial rows
partial_entries(i) ==
    Cardinality({n \in DOMAIN payload("cell", i) :
        LET e == payload("cell", i)[n]
            radio == IF Get(e, "radio", "") # ""
                     THEN Get(RADIO_TYPE, e.radio, -1) ELSE measure[i].radio
        IN  partial(radio, Get(e, "lac", 0), Get(e, "cid", 0))})

\* C20: a cell entry whose resolved radio is -1 or whose lac or cid is 0
\* gets its row stored by the commit of the task and is counted in the
\* result of the insert task, and no record and no credit ever exists for
\* the key of such an entry.
C20_PartialOnlyStored ==
    /\ [](/\ \A st \in DOMAIN cell : ~partial(st[1], st[4], st[5])
          /\ \A c \in BagToSet(score) :
                c.key = "new_cell" => ~partial(c.station[1], c.station[4], c.station[5]))
    /\ [][\A r \in left(tasks, tasks') :
             (/\ r.name \in CellTasks /\ r.pc = "commit"
              /\ \E q \in added(tasks, tasks') : committed(q))
             => /\ \A n \in DOMAIN r.measures :
                      partial_rows(cell_measure', r.measures[n])
                        = partial_rows(cell_measure, r.measures[n])
                          + partial_entries(r.measures[n])
                /\ r.name \in InsertTasks =>
                      \A q \in added(tasks, tasks') :
                          q.result = Len(payload("cell", r.measures[1]))]_vars

\* an insert task has committed a report whose three entries are all
\* partial: three rows, a result of 3, no record and no credit
C20_Witness ==
    \E r \in BagToSet(tasks) : \E i \in ids_of(r) :
        /\ committed(r) /\ r.name = "insert_cell_measure"
        /\ partial_entries(i) = 3
        /\ partial_rows(cell_measure, i) = 3
        /\ r.result = 3
        /\ cell = <<>> /\ score = EmptyBag

====
